---- MODULE Spec2Model ----
(***************************************************************************)
(* Model of nlprule's fundamental types (src/nlprule/src/types.rs) and of  *)
(* the offline resource compiler (src/nlprule/src/bin/compile.rs).         *)
(*                                                                         *)
(* Option<T> values are sequences of length 0 (None) or 1 (Some).          *)
(* A Cow<str> is a record [cow, s]: the variant and the string content.    *)
(***************************************************************************)
EXTENDS Integers, Sequences, FiniteSets, TLC

\* ---------------------------------------------------------------- bounds
MaxTags == 2
MaxId == 0

\* ------------------------------------------------------------ the Tagger
\* A Tagger is its tag store (tag string at index id+1) and its word store.
TaggerA ==
    [tag_store |-> <<"", "NOUN", "UNKNOWN", "SENT_END", "SENT_START">>,
     word_store |-> <<"", "cat">>]

TaggerB ==
    [tag_store |-> <<"SENT_START", "UNKNOWN", "", "SENT_END", "NOUN">>,
     word_store |-> <<"cat">>]

Taggers == {TaggerA, TaggerB}

PosIds(tagger) == 0..(Len(tagger.tag_store) - 1)

tag_to_id(tagger, tag) ==
    CHOOSE i \in PosIds(tagger) : tagger.tag_store[i + 1] = tag

id_to_tag(tagger, id) == tagger.tag_store[id + 1]

\* ---------------------------------------------------------------- WordId
WordId_new(text, id) == [text |-> text, id |-> id]

BorrowedStr(s) == [cow |-> "Borrowed", s |-> s]

OwnedStr(s) == [cow |-> "Owned", s |-> s]

id_word(tagger, text) ==
    WordId_new(text,
        IF \E i \in 1..Len(tagger.word_store) : tagger.word_store[i] = text.s
        THEN <<(CHOOSE i \in 1..Len(tagger.word_store) :
                    tagger.word_store[i] = text.s) - 1>>
        ELSE <<>>)

\* OwnedWordId(String, Option<u32>): the String is the bare content.
OwnedWordId(s, id) == [s |-> s, id |-> id]

as_ref_id(o) == WordId_new(BorrowedStr(o.s), o.id)

to_owned_id_drop_id(w) == OwnedWordId(w.text.s, <<>>)

to_owned_id(w) == OwnedWordId(w.text.s, w.id)

\* derive(PartialEq) on WordId: Cow<str> compares by content, ids by value.
WordId_eq(a, b) == a.text.s = b.text.s /\ a.id = b.id

\* ------------------------------------------------------ WordData and Word
WordData_new(lemma, pos_id) == [lemma |-> lemma, pos_id |-> pos_id]

to_owned_word_data(d) == [lemma |-> to_owned_id(d.lemma), pos_id |-> d.pos_id]

Word_new_with_tags(text, tags) == [text |-> text, tags |-> tags]

to_owned_word(w) ==
    [text |-> to_owned_id(w.text),
     tags |-> [i \in 1..Len(w.tags) |-> to_owned_word_data(w.tags[i])]]

\* ------------------------------------------------------------ Token
sent_start_spaced(text, tagger) ==
    [word |-> Word_new_with_tags(
                  id_word(tagger, BorrowedStr("")),
                  <<WordData_new(id_word(tagger, BorrowedStr("")),
                                 tag_to_id(tagger, "SENT_START"))>>),
     char_span |-> <<0, 0>>,
     byte_span |-> <<0, 0>>,
     has_space_before |-> TRUE,
     chunks |-> <<>>,
     text |-> text,
     tagger |-> tagger]

sent_start(text, tagger) ==
    [word |-> Word_new_with_tags(
                  id_word(tagger, BorrowedStr("")),
                  <<WordData_new(id_word(tagger, BorrowedStr("")),
                                 tag_to_id(tagger, "SENT_START"))>>),
     char_span |-> <<0, 0>>,
     byte_span |-> <<0, 0>>,
     has_space_before |-> FALSE,
     chunks |-> <<>>,
     text |-> text,
     tagger |-> tagger]

to_owned_token_swapped(t) ==
    [word |-> to_owned_word(t.word),
     char_span |-> t.byte_span,
     byte_span |-> t.char_span,
     has_space_before |-> t.has_space_before,
     chunks |-> t.chunks]

to_owned_token(t) ==
    [word |-> to_owned_word(t.word),
     char_span |-> t.char_span,
     byte_span |-> t.byte_span,
     has_space_before |-> t.has_space_before,
     chunks |-> t.chunks]

\* ------------------------------------------- From<IncompleteToken> for Token
\* The three pushes of from(), each on the word as the previous one left it.
push_null_skipped(word, data) == word

push_null_replacing(word, data) ==
    [word EXCEPT !.tags =
        <<WordData_new(data.word.text, tag_to_id(data.tagger, ""))>>]

push_null(word, data) ==
    [word EXCEPT !.tags =
        Append(@, WordData_new(data.word.text, tag_to_id(data.tagger, "")))]

push_unknown_any(word, data) ==
    IF \E i \in 1..Len(word.tags) :
           id_to_tag(data.tagger, word.tags[i].pos_id) = ""
    THEN [word EXCEPT !.tags =
            Append(@, WordData_new(data.word.text,
                                   tag_to_id(data.tagger, "UNKNOWN")))]
    ELSE word

push_unknown(word, data) ==
    IF \A i \in 1..Len(word.tags) :
           id_to_tag(data.tagger, word.tags[i].pos_id) = ""
    THEN [word EXCEPT !.tags =
            Append(@, WordData_new(data.word.text,
                                   tag_to_id(data.tagger, "UNKNOWN")))]
    ELSE word

push_sent_end_always(word, data) ==
    [word EXCEPT !.tags =
        Append(@, WordData_new(data.word.text,
                               tag_to_id(data.tagger, "SENT_END")))]

push_sent_end(word, data) ==
    IF data.is_sentence_end
    THEN [word EXCEPT !.tags =
            Append(@, WordData_new(data.word.text,
                                   tag_to_id(data.tagger, "SENT_END")))]
    ELSE word

Token_of(word, data) ==
    [word |-> word,
     byte_span |-> data.byte_span,
     char_span |-> data.char_span,
     has_space_before |-> data.has_space_before,
     chunks |-> data.chunks,
     text |-> data.text,
     tagger |-> data.tagger]

Token_from_sent_end_first(data) ==
    Token_of(push_unknown(push_sent_end(push_null(data.word, data), data),
                          data), data)

Token_from(data) ==
    Token_of(push_sent_end(push_unknown(push_null(data.word, data), data),
                           data), data)

\* ------------------------------------------------------------ input sets
Strs == {BorrowedStr("cat"), OwnedStr("Cat")}

OptIds == {<<>>} \cup {<<n>> : n \in 0..MaxId}

WordIds == {WordId_new(s, id) : s \in Strs, id \in OptIds}

Lemmas == {WordId_new(OwnedStr("be"), <<0>>)}

\* a document text with the byte span and the char span of one of its words
Places == {[text |-> "cat", byte_span |-> <<0, 3>>, char_span |-> <<0, 3>>],
           [text |-> "a cat.", byte_span |-> <<3, 8>>, char_span |-> <<2, 5>>]}

ChunkLists == {<<>>, <<"B-NP-singular", "E-NP-singular">>}

RECURSIVE SeqsUpTo(_, _)
SeqsUpTo(S, n) ==
    IF n = 0 THEN {<<>>}
    ELSE LET shorter == SeqsUpTo(S, n - 1)
         IN  shorter \cup {Append(q, x) : q \in shorter, x \in S}

WordDatas(tagger) ==
    {WordData_new(l, p) : l \in Lemmas, p \in PosIds(tagger)}

IncompleteTokens(tagger) ==
    {[word |-> Word_new_with_tags(w, tags),
      byte_span |-> p.byte_span,
      char_span |-> p.char_span,
      is_sentence_end |-> e,
      has_space_before |-> h,
      chunks |-> c,
      text |-> p.text,
      tagger |-> tagger] :
        w \in WordIds, tags \in SeqsUpTo(WordDatas(tagger), MaxTags),
        p \in Places, e \in BOOLEAN, h \in BOOLEAN, c \in ChunkLists}

\* ------------------------------------------------------------ state
VARIABLES
    pc,         \* "input", "from" (Token::from ran) or "sent_start"
    data,       \* the IncompleteToken
    token,      \* Option<Token>
    owned,      \* Option<OwnedToken>
    ref_id,     \* Option<WordId>: as_ref_id() of the owned word text
    owned_id,   \* Option<OwnedWordId>: to_owned_id() of ref_id
    cpc,        \* position of the compiler's main()
    opts,       \* the compiler's options
    tagger,     \* Option<Tagger>: the local `tagger` of main()
    tokenizer,  \* Option<Tokenizer>
    rules,      \* Option<Rules>
    out_tokenizer,  \* the file at out_tokenizer_path
    out_rules       \* the file at out_rules_path

tvars == <<pc, data, token, owned, ref_id, owned_id>>

cvars == <<cpc, opts, tagger, tokenizer, rules, out_tokenizer, out_rules>>

vars == <<pc, data, token, owned, ref_id, owned_id,
          cpc, opts, tagger, tokenizer, rules, out_tokenizer, out_rules>>

\* ------------------------------------------------ token operations
TokInit ==
    /\ pc = "input"
    /\ data \in UNION {IncompleteTokens(t) : t \in Taggers}
    /\ token = <<>>
    /\ owned = <<>>
    /\ ref_id = <<>>
    /\ owned_id = <<>>

TokIdle ==
    /\ pc = "input"
    /\ data = [word |-> Word_new_with_tags(
                            WordId_new(BorrowedStr("cat"), <<>>), <<>>),
               byte_span |-> <<0, 3>>, char_span |-> <<0, 3>>,
               is_sentence_end |-> FALSE, has_space_before |-> FALSE,
               chunks |-> <<>>, text |-> "cat", tagger |-> TaggerA]
    /\ token = <<>>
    /\ owned = <<>>
    /\ ref_id = <<>>
    /\ owned_id = <<>>

\* Token::from(data)
From ==
    /\ pc = "input"
    /\ token' = <<Token_from(data)>>
    /\ pc' = "from"
    /\ UNCHANGED <<data, owned, ref_id, owned_id>>
    /\ UNCHANGED cvars

\* Token::sent_start(text, tagger)
SentStart ==
    /\ pc = "input"
    /\ token' = <<sent_start(data.text, data.tagger)>>
    /\ pc' = "sent_start"
    /\ UNCHANGED <<data, owned, ref_id, owned_id>>
    /\ UNCHANGED cvars

\* token.to_owned_token()
ToOwnedToken ==
    /\ token # <<>>
    /\ owned = <<>>
    /\ owned' = <<to_owned_token(token[1])>>
    /\ UNCHANGED <<pc, data, token, ref_id, owned_id>>
    /\ UNCHANGED cvars

\* owned.word.text.as_ref_id()
AsRefId ==
    /\ owned # <<>>
    /\ ref_id = <<>>
    /\ ref_id' = <<as_ref_id(owned[1].word.text)>>
    /\ UNCHANGED <<pc, data, token, owned, owned_id>>
    /\ UNCHANGED cvars

\* ref_id.to_owned_id()
ToOwnedId ==
    /\ ref_id # <<>>
    /\ owned_id = <<>>
    /\ owned_id' = <<to_owned_id(ref_id[1])>>
    /\ UNCHANGED <<pc, data, token, owned, ref_id>>
    /\ UNCHANGED cvars

\* ------------------------------------------------ the compiler's main()
File(state, content) == [state |-> state, tagger |-> content]

FileStates == {File("absent", <<>>), File("stale", <<>>)}

OptPaths == {<<>>, <<"path">>}

Tokenizer_from_xml(tg, chunker) == [tagger |-> tg, chunker |-> chunker]

Tokenizer_tagger(tok) == tok.tagger

Rules_from_xml(tg) == [tagger |-> tg]

OtherTagger(tg) == IF tg = TaggerA THEN TaggerB ELSE TaggerA

main_rules_fresh_tagger(tok) == Rules_from_xml(OtherTagger(tok.tagger))

main_rules(tok) == Rules_from_xml(Tokenizer_tagger(tok))

CompileInit ==
    /\ cpc = "common_words"
    /\ opts \in [common_words_path : OptPaths, chunker_path : OptPaths]
    /\ tagger = <<>>
    /\ tokenizer = <<>>
    /\ rules = <<>>
    /\ out_tokenizer \in FileStates
    /\ out_rules \in FileStates

CompileIdle ==
    /\ cpc = "common_words"
    /\ opts = [common_words_path |-> <<>>, chunker_path |-> <<>>]
    /\ tagger = <<>>
    /\ tokenizer = <<>>
    /\ rules = <<>>
    /\ out_tokenizer = File("absent", <<>>)
    /\ out_rules = File("absent", <<>>)

\* a step that only moves on or panics (an unwrap() of an Err)
Step(from, to, fallible) ==
    /\ cpc = from
    /\ \E ok \in (IF fallible THEN BOOLEAN ELSE {TRUE}) :
          cpc' = IF ok THEN to ELSE "panic"

ReadCommonWords ==
    /\ Step("common_words", "tokenizer_options", opts.common_words_path # <<>>)
    /\ UNCHANGED <<opts, tagger, tokenizer, rules, out_tokenizer, out_rules>>
    /\ UNCHANGED tvars

ReadTokenizerOptions ==
    /\ Step("tokenizer_options", "rules_options", TRUE)
    /\ UNCHANGED <<opts, tagger, tokenizer, rules, out_tokenizer, out_rules>>
    /\ UNCHANGED tvars

ReadRulesOptions ==
    /\ Step("rules_options", "tagger", TRUE)
    /\ UNCHANGED <<opts, tagger, tokenizer, rules, out_tokenizer, out_rules>>
    /\ UNCHANGED tvars

\* Tagger::from_dumps(..).unwrap(): the tag table depends on the dumps
BuildTagger ==
    /\ cpc = "tagger"
    /\ \/ \E tg \in Taggers :
            /\ tagger' = <<tg>>
            /\ cpc' = "chunker"
       \/ /\ cpc' = "panic"
          /\ UNCHANGED tagger
    /\ UNCHANGED <<opts, tokenizer, rules, out_tokenizer, out_rules>>
    /\ UNCHANGED tvars

\* the chunker argument: File::open(path).unwrap() when a path is given
OpenChunker ==
    /\ Step("chunker", "tokenizer", opts.chunker_path # <<>>)
    /\ UNCHANGED <<opts, tagger, tokenizer, rules, out_tokenizer, out_rules>>
    /\ UNCHANGED tvars

\* Tokenizer::from_xml(.., Arc::new(tagger), chunker, ..).unwrap()
BuildTokenizer ==
    /\ cpc = "tokenizer"
    /\ \/ /\ tokenizer' =
                <<Tokenizer_from_xml(tagger[1], opts.chunker_path # <<>>)>>
          /\ tagger' = <<>>
          /\ cpc' = "create_tokenizer_file"
       \/ /\ cpc' = "panic"
          /\ UNCHANGED <<tagger, tokenizer>>
    /\ UNCHANGED <<opts, rules, out_tokenizer, out_rules>>
    /\ UNCHANGED tvars

\* File::create(&opts.out_tokenizer_path).unwrap()
CreateTokenizerFile ==
    /\ cpc = "create_tokenizer_file"
    /\ \/ /\ out_tokenizer' = File("created", <<>>)
          /\ cpc' = "write_tokenizer"
       \/ /\ cpc' = "panic"
          /\ UNCHANGED out_tokenizer
    /\ UNCHANGED <<opts, tagger, tokenizer, rules, out_rules>>
    /\ UNCHANGED tvars

\* bincode::serialize_into(f, &tokenizer).unwrap()
WriteTokenizer ==
    /\ cpc = "write_tokenizer"
    /\ \/ /\ out_tokenizer' = File("written", <<tokenizer[1].tagger>>)
          /\ cpc' = "rules"
       \/ /\ out_tokenizer' \in {File("created", <<>>), File("partial", <<>>)}
          /\ cpc' = "panic"
    /\ UNCHANGED <<opts, tagger, tokenizer, rules, out_rules>>
    /\ UNCHANGED tvars

\* Rules::from_xml(opts.grammar_path, tokenizer.tagger(), rules_options)
BuildRules ==
    /\ cpc = "rules"
    /\ rules' = <<main_rules(tokenizer[1])>>
    /\ cpc' = "create_rules_file"
    /\ UNCHANGED <<opts, tagger, tokenizer, out_tokenizer, out_rules>>
    /\ UNCHANGED tvars

\* File::create(&opts.out_rules_path).unwrap()
CreateRulesFile ==
    /\ cpc = "create_rules_file"
    /\ \/ /\ out_rules' = File("created", <<>>)
          /\ cpc' = "write_rules"
       \/ /\ cpc' = "panic"
          /\ UNCHANGED out_rules
    /\ UNCHANGED <<opts, tagger, tokenizer, rules, out_tokenizer>>
    /\ UNCHANGED tvars

\* bincode::serialize_into(f, &rules).unwrap()
WriteRules ==
    /\ cpc = "write_rules"
    /\ \/ /\ out_rules' = File("written", <<rules[1].tagger>>)
          /\ cpc' = "done"
       \/ /\ out_rules' \in {File("created", <<>>), File("partial", <<>>)}
          /\ cpc' = "panic"
    /\ UNCHANGED <<opts, tagger, tokenizer, rules, out_tokenizer>>
    /\ UNCHANGED tvars

\* ------------------------------------------------------ specifications
TokNext ==
    \/ From
    \/ SentStart
    \/ ToOwnedToken
    \/ AsRefId
    \/ ToOwnedId

InitTok == TokInit /\ CompileIdle

SpecTok == InitTok /\ [][TokNext]_vars

CompileNext ==
    \/ ReadCommonWords
    \/ ReadTokenizerOptions
    \/ ReadRulesOptions
    \/ BuildTagger
    \/ OpenChunker
    \/ BuildTokenizer
    \/ CreateTokenizerFile
    \/ WriteTokenizer
    \/ BuildRules
    \/ CreateRulesFile
    \/ WriteRules

InitCompile == CompileInit /\ TokIdle

SpecCompile == InitCompile /\ [][CompileNext]_vars

\* ------------------------------------------------------------ properties

\* C1: after Token::from the tag list is never empty and contains the null
\* analysis: the word's own text as lemma, tagged with the Tagger's id of "".
C1_FinalizationTotality ==
    pc = "from" =>
        LET tags == token[1].word.tags
        IN  /\ Len(tags) > 0
            /\ \E i \in 1..Len(tags) :
                  /\ WordId_eq(tags[i].lemma, data.word.text)
                  /\ tags[i].pos_id = tag_to_id(data.tagger, "")
                  /\ id_to_tag(data.tagger, tags[i].pos_id) = ""

C1_Witness ==
    /\ pc = "from"
    /\ data.word.tags = <<>>
    /\ data.is_sentence_end
    /\ Len(token[1].word.tags) = 3

\* C2 as stated: input analyses all resolving to "" (or none at all) give a
\* Token that contains UNKNOWN; one non-empty input analysis gives a Token
\* that contains no UNKNOWN analysis at all.
C2_Original ==
    pc = "from" =>
        LET tags == token[1].word.tags
            in_tags == data.word.tags
            all_empty == \A i \in 1..Len(in_tags) :
                            id_to_tag(data.tagger, in_tags[i].pos_id) = ""
            has_unknown == \E i \in 1..Len(tags) :
                            id_to_tag(data.tagger, tags[i].pos_id) = "UNKNOWN"
        IN  /\ all_empty => has_unknown
            /\ ~all_empty => ~has_unknown

\* C2 amended: input analyses all resolving to "" give a Token that contains
\* UNKNOWN; with one non-empty input analysis Token::from appends no UNKNOWN
\* analysis, so the Token has exactly the UNKNOWN analyses of the input.
C2_UnknownMarking ==
    pc = "from" =>
        LET tags == token[1].word.tags
            in_tags == data.word.tags
            all_empty == \A i \in 1..Len(in_tags) :
                            id_to_tag(data.tagger, in_tags[i].pos_id) = ""
            unknown_in(l) == {i \in 1..Len(l) :
                            id_to_tag(data.tagger, l[i].pos_id) = "UNKNOWN"}
        IN  /\ all_empty => unknown_in(tags) = {Len(in_tags) + 2}
            /\ ~all_empty => unknown_in(tags) = unknown_in(in_tags)

C2_Witness ==
    /\ pc = "from"
    /\ Len(data.word.tags) = 2
    /\ id_to_tag(data.tagger, data.word.tags[1].pos_id) = "UNKNOWN"
    /\ id_to_tag(data.tagger, data.word.tags[2].pos_id) = ""
    /\ Len(token[1].word.tags) = 3

\* C3 as stated: a sentence-end token gets SENT_END appended exactly once; a
\* token that does not end a sentence contains no SENT_END analysis at all.
C3_Original ==
    pc = "from" =>
        LET tags == token[1].word.tags
            in_tags == data.word.tags
            sent_end_in(l) == {i \in 1..Len(l) :
                            id_to_tag(data.tagger, l[i].pos_id) = "SENT_END"}
        IN  /\ data.is_sentence_end =>
                sent_end_in(tags) = sent_end_in(in_tags) \cup {Len(tags)}
            /\ data.is_sentence_end => Len(tags) > Len(in_tags) + 1
            /\ ~data.is_sentence_end => sent_end_in(tags) = {}

\* C3 amended: a sentence-end token gets SENT_END appended exactly once, as
\* the last analysis; for a token that does not end a sentence Token::from
\* appends no SENT_END analysis, so the Token has exactly the SENT_END
\* analyses of the input.
C3_SentenceEndMarking ==
    pc = "from" =>
        LET tags == token[1].word.tags
            in_tags == data.word.tags
            sent_end_in(l) == {i \in 1..Len(l) :
                            id_to_tag(data.tagger, l[i].pos_id) = "SENT_END"}
        IN  /\ data.is_sentence_end =>
                sent_end_in(tags) = sent_end_in(in_tags) \cup {Len(tags)}
            /\ data.is_sentence_end => Len(tags) > Len(in_tags) + 1
            /\ ~data.is_sentence_end => sent_end_in(tags) = sent_end_in(in_tags)

C3_Witness ==
    /\ pc = "from"
    /\ ~data.is_sentence_end
    /\ Len(data.word.tags) = 1
    /\ id_to_tag(data.tagger, data.word.tags[1].pos_id) = "SENT_END"
    /\ Len(token[1].word.tags) = 2

\* C4: the sentence-start token has char span (0,0), byte span (0,0), exactly
\* one analysis, tagged SENT_START, no space before and no chunk labels; it
\* has no null, UNKNOWN or SENT_END analysis.
C4_SentenceStart ==
    pc = "sent_start" =>
        LET t == token[1]
        IN  /\ t.char_span = <<0, 0>>
            /\ t.byte_span = <<0, 0>>
            /\ Len(t.word.tags) = 1
            /\ id_to_tag(t.tagger, t.word.tags[1].pos_id) = "SENT_START"
            /\ t.has_space_before = FALSE
            /\ t.chunks = <<>>
            /\ \A i \in 1..Len(t.word.tags) :
                  id_to_tag(t.tagger, t.word.tags[i].pos_id)
                      \notin {"", "UNKNOWN", "SENT_END"}
            /\ t.text = data.text
            /\ t.tagger = data.tagger

C4_Witness ==
    /\ pc = "sent_start"
    /\ data.tagger = TaggerB
    /\ data.has_space_before
    /\ data.is_sentence_end
    /\ data.text = "a cat."

\* C5 as stated: the OwnedToken has every field of the Token but the Tagger
\* reference, the reference to the document text included, with equal value.
C5_Original ==
    owned # <<>> =>
        /\ DOMAIN owned[1] = DOMAIN token[1] \ {"tagger"}
        /\ owned[1].text = token[1].text

\* C5 amended: to_owned_token keeps word text, ordered tag list (lemma and
\* tag id), char span, byte span, preceding-whitespace flag and chunk labels
\* with equal values; it drops the Tagger reference and the reference to the
\* document text, and only these two.
C5_OwnedLossless ==
    owned # <<>> =>
        LET t == token[1]
            o == owned[1]
        IN  /\ DOMAIN o = DOMAIN t \ {"tagger", "text"}
            /\ o.char_span = t.char_span
            /\ o.byte_span = t.byte_span
            /\ o.has_space_before = t.has_space_before
            /\ o.chunks = t.chunks
            /\ o.word.text.s = t.word.text.text.s
            /\ o.word.text.id = t.word.text.id
            /\ Len(o.word.tags) = Len(t.word.tags)
            /\ \A i \in 1..Len(t.word.tags) :
                  /\ o.word.tags[i].lemma.s = t.word.tags[i].lemma.text.s
                  /\ o.word.tags[i].lemma.id = t.word.tags[i].lemma.id
                  /\ o.word.tags[i].pos_id = t.word.tags[i].pos_id

C5_Witness ==
    /\ owned # <<>>
    /\ pc = "from"
    /\ token[1].char_span # token[1].byte_span
    /\ token[1].chunks # <<>>
    /\ token[1].has_space_before
    /\ Len(owned[1].word.tags) = 3

\* C6: a borrowed id taken to the owned form and back equals the original
\* (by text and numeric id, whichever Cow variant holds the text); an owned
\* id taken to the borrowed form and back is the same owned id, so repeating
\* the owned conversion changes nothing.
C6_WordIdRoundTrip ==
    /\ ref_id # <<>> =>
          /\ WordId_eq(ref_id[1], token[1].word.text)
          /\ to_owned_id(ref_id[1]) = to_owned_id(token[1].word.text)
    /\ owned_id # <<>> =>
          /\ owned_id[1] = owned[1].word.text
          /\ WordId_eq(as_ref_id(owned_id[1]), ref_id[1])

C6_Witness ==
    /\ owned_id # <<>>
    /\ token[1].word.text.text.cow = "Owned"
    /\ ref_id[1].text.cow = "Borrowed"
    /\ token[1].word.text.id # <<>>

\* C7: a run of the compiler that aborts has serialized no artifact; in
\* particular it never aborts with the tokenizer artifact written.
C7_NoPartialArtifact ==
    cpc = "panic" =>
        /\ out_tokenizer.state \notin {"partial", "written"}
        /\ out_rules.state \notin {"partial", "written"}

\* C8: the Tagger is built before the Tokenizer, the Tokenizer holds that
\* Tagger, the Rules are built last with the Tokenizer's Tagger; an artifact
\* is written only once its object is built, and the two artifacts of a
\* finished run have the same tag table.
C8_BuildOrder ==
    /\ tagger # <<>> => tokenizer = <<>> /\ rules = <<>>
    /\ cpc = "tokenizer" => tagger # <<>>
    /\ rules # <<>> =>
          /\ tokenizer # <<>>
          /\ rules[1].tagger = Tokenizer_tagger(tokenizer[1])
          /\ out_tokenizer = File("written", <<tokenizer[1].tagger>>)
    /\ out_tokenizer.state \in {"created", "partial", "written"} =>
          tokenizer # <<>>
    /\ out_tokenizer.state = "written" =>
          out_tokenizer.tagger = <<tokenizer[1].tagger>>
    /\ out_rules.state \in {"created", "partial", "written"} => rules # <<>>
    /\ out_rules.state = "written" => out_rules.tagger = <<rules[1].tagger>>
    /\ cpc = "done" =>
          /\ out_tokenizer.state = "written"
          /\ out_rules.state = "written"
          /\ out_tokenizer.tagger = out_rules.tagger

C8_Witness ==
    /\ cpc = "done"
    /\ out_rules = File("written", <<TaggerB>>)
    /\ tokenizer[1].chunker

\* C9: Token::from keeps the input tag list as a prefix and appends one to
\* three analyses, each with the word's own text as lemma; word text, spans,
\* whitespace flag, chunk labels, document text and Tagger are the input's.
C9_OnlyAppends ==
    pc = "from" =>
        LET t == token[1]
            n == Len(data.word.tags)
        IN  /\ Len(t.word.tags) - n \in 1..3
            /\ SubSeq(t.word.tags, 1, n) = data.word.tags
            /\ \A i \in (n + 1)..Len(t.word.tags) :
                  t.word.tags[i].lemma = data.word.text
            /\ t.word.text = data.word.text
            /\ t.byte_span = data.byte_span
            /\ t.char_span = data.char_span
            /\ t.has_space_before = data.has_space_before
            /\ t.chunks = data.chunks
            /\ t.text = data.text
            /\ t.tagger = data.tagger

C9_Witness ==
    /\ pc = "from"
    /\ Len(data.word.tags) = 2
    /\ Len(token[1].word.tags) = 5
    /\ data.chunks # <<>>

\* C10: the appended analyses are the null analysis, then UNKNOWN exactly
\* when all input analyses resolve to "", then SENT_END exactly when the
\* token ends a sentence; whether UNKNOWN is appended does not depend on
\* is_sentence_end.
C10_FixedOrder ==
    pc = "from" =>
        LET tags == token[1].word.tags
            in_tags == data.word.tags
            n == Len(in_tags)
            all_empty == \A i \in 1..n :
                            id_to_tag(data.tagger, in_tags[i].pos_id) = ""
            u == IF all_empty THEN 1 ELSE 0
            e == IF data.is_sentence_end THEN 1 ELSE 0
        IN  /\ Len(tags) = n + 1 + u + e
            /\ id_to_tag(data.tagger, tags[n + 1].pos_id) = ""
            /\ all_empty =>
                  id_to_tag(data.tagger, tags[n + 2].pos_id) = "UNKNOWN"
            /\ data.is_sentence_end =>
                  id_to_tag(data.tagger, tags[n + 1 + u + 1].pos_id)
                      = "SENT_END"

C10_Witness ==
    /\ pc = "from"
    /\ data.is_sentence_end
    /\ Len(data.word.tags) = 1
    /\ id_to_tag(data.tagger, data.word.tags[1].pos_id) = ""
    /\ Len(token[1].word.tags) = 4
    /\ id_to_tag(data.tagger, token[1].word.tags[3].pos_id) = "UNKNOWN"
    /\ id_to_tag(data.tagger, token[1].word.tags[4].pos_id) = "SENT_END"

====
